---- MODULE Spec2Model ----
(***************************************************************************)
(* The aggregation store of the device-monitoring API (store.go) and the   *)
(* startup sequence of main: one sync.RWMutex guarding a map from device   *)
(* id to *DeviceStats, mutated in place by RecordHeartbeat and             *)
(* RecordUploadStat and read by DeviceExists, GetStats and DeviceCount.    *)
(*                                                                         *)
(* Timestamps are counted in ticks since Go's zero time.Time, so tick 0 is *)
(* the instant for which Time.IsZero() is true; TicksPerMinute ticks make  *)
(* one minute.  Durations are integers (nanoseconds in the code).          *)
(* Uptime, a float64 in the code, is kept as an exact fraction num/den.    *)
(***************************************************************************)
EXTENDS Integers, Sequences, FiniteSets, TLC

\* ------------------------------------------------------------------ bounds
NumProcs == 2
MaxCalls == 3
MaxTime == 4
MaxDuration == 1
MaxTestWrites == 5
MaxTestTime == 22
MaxTestUploadSteps == 3
MaxRequests == 2
MaxSerialRequests == 3
maxUploadTime == 96
DurationBits == 8

TicksPerMinute == 2

Procs == 1..NumProcs
KnownIDs == {"d1", "d2"}
DeviceIDs == KnownIDs \cup {"zz"}
Times == 0..MaxTime
Durations == (-1)..MaxDuration

\* The contents csv.ReadAll can hand to LoadDevicesFromCSV: rows of fields.
\* An empty file is read without error and gives no row at all.
CsvFiles ==
    { << >>,
      << <<"device_id">>, <<"d1">>, <<"d2">> >>,
      << <<"device_id">>, <<"d1">>, <<"">>, <<"d1">> >>,
      << <<"d2">> >> }

VARIABLES
    devices,    \* Store.devices: device id -> DeviceStats
    mu,         \* Store.mu: [w: a writer holds it, r: number of readers holding it]
    mainpc,     \* position of main
    records,    \* LoadDevicesFromCSV: the rows read from the file
    i,          \* LoadDevicesFromCSV: the loop index (0-based, as in the code)
    configErr,  \* main: LoadDevicesFromCSV returned an error
    pc,         \* per goroutine: position inside the store method it runs
    call,       \* per goroutine: the method called and its arguments
    tmp,        \* per goroutine: the value loaded by a ++ or += in progress
    ret,        \* per goroutine: the value the method is about to return
    calls,      \* number of store method calls made so far
    roster,     \* history: the keys of the map when main left LoadDevicesFromCSV
    committed,  \* history: the records as the last writer to unlock left them
    hbOk,       \* history: per id, RecordHeartbeat calls that returned true
    upOk,       \* history: per id, RecordUploadStat calls that returned true
    firstOk,    \* history: per id, sentAt of the first RecordHeartbeat that returned true
    lastLocked, \* history: per known id, sentAt of the RecordHeartbeat that took the lock last
    upSum,      \* history: per id, sum of the durations of the RecordUploadStat calls that returned true
    hbMinute,   \* history: per id, the calendar minute the heartbeats that returned true fell in
    hbOrdered,  \* history: per id, no heartbeat that returned true was older than the one before it
    upKinds,    \* history: per id, the signs of the durations of the uploads that returned true
    req,        \* per goroutine: the HTTP request it serves (method, URL path, body read)
    resp,       \* per goroutine: the HTTP response it has written
    now,        \* per goroutine: the time.Now() its handler validated a sent_at against
    hdl         \* per goroutine: the handler it runs, its deviceID, its position, the store's result

vars == <<devices, mu, mainpc, records, i, configErr, pc, call, tmp, ret, calls,
          roster, committed, hbOk, upOk, firstOk, lastLocked, upSum, hbMinute, hbOrdered, upKinds,
          req, resp, now, hdl>>

storeVars == <<devices, mu>>
loadVars == <<mainpc, records, i, configErr>>
httpVars == <<req, resp, now, hdl>>
histVars == <<roster, committed, hbOk, upOk, firstOk, lastLocked, upSum, hbMinute, hbOrdered, upKinds>>

\* ------------------------------------------------------------- data types
ZeroTime == 0

IsZero(t) == t = ZeroTime

DeviceStats(id) ==
    [ID |-> id, HeartbeatCount |-> 0, FirstHeartbeat |-> ZeroTime,
     LastHeartbeat |-> ZeroTime, UploadCount |-> 0, UploadTimeSum |-> 0]

RECURSIVE Gcd(_, _)
Gcd(a, b) == IF b = 0 THEN a ELSE Gcd(b, a % b)

Abs(x) == IF x < 0 THEN -x ELSE x

\* The fraction n/d, d # 0, in lowest terms with a positive denominator.
Frac(n, d) ==
    LET g == Gcd(Abs(n), Abs(d))
        s == IF d < 0 THEN -1 ELSE 1
    IN [num |-> s * (n \div g), den |-> s * (d \div g)]

FracLE(a, b) == a.num * b.den <= b.num * a.den

Hundred == [num |-> 100, den |-> 1]
ZeroFrac == [num |-> 0, den |-> 1]

StatsResult ==
    [HasHeartbeats |-> FALSE, HasUploads |-> FALSE, Uptime |-> ZeroFrac,
     AvgUploadTime |-> 0]

\* Fault variant of TruncDiv: the quotient is rounded down.
FloorDiv(a, b) == a \div b

\* time.Duration is an int64; the model gives it DurationBits bits, two's
\* complement, so that sums of accepted upload times can leave its range.
MaxInt64 == 2^(DurationBits - 1) - 1
MinInt64 == -(2^(DurationBits - 1))

\* What Go's + and += leave in an int64 for the mathematical result x.
WrapInt64(x) == ((x - MinInt64) % 2^DurationBits) + MinInt64

\* Go's integer division truncates toward zero.
TruncDiv(a, b) ==
    IF (a >= 0) = (b > 0) THEN Abs(a) \div Abs(b) ELSE -(Abs(a) \div Abs(b))

NoCall == [op |-> "none", id |-> "", sentAt |-> ZeroTime, uploadTime |-> 0]
NoRet == [ok |-> FALSE, stats |-> StatsResult, n |-> 0, divisors |-> {}]

NewStore == [x \in {} |-> DeviceStats(x)]

\* No body read: the request's r.Body before json.Decode.
NoBody == [json |-> "none", sent_at |-> ZeroTime, upload_time |-> 0]

\* A goroutine of the HTTP server that serves no request, and a response not written.
NoRequest == [method |-> "", path |-> <<>>, body |-> NoBody]
NoResponse == [status |-> 0, msg |-> "", uptime |-> ZeroFrac, avg_upload_time |-> ""]

\* A goroutine that runs no handler.
NoHandler == [op |-> "", id |-> "", at |-> "idle", result |-> NoRet]

Sign(x) == IF x < 0 THEN "negative" ELSE IF x = 0 THEN "zero" ELSE "positive"

\* The calendar minute a timestamp falls in.
Minute(t) == t \div TicksPerMinute

\* What is known of the minutes of a device's heartbeats: none recorded yet, all
\* in one calendar minute, or in more than one.
NoMinute == [seen |-> "none", minute |-> Minute(ZeroTime)]

\* Whether the successful heartbeats of a device came with non-decreasing
\* timestamps, once one with sentAt follows those held in the record previous.
StillOrdered(ordered, previous, sentAt) ==
    ordered /\ (previous.HeartbeatCount = 0 \/ sentAt >= previous.LastHeartbeat)

MinuteSeen(known, sentAt) ==
    IF known.seen = "none"
    THEN [seen |-> "one", minute |-> Minute(sentAt)]
    ELSE IF known.seen = "one" /\ known.minute = Minute(sentAt)
         THEN known
         ELSE [seen |-> "several", minute |-> Minute(ZeroTime)]

\* ------------------------------------------------------- stats derivation
\* Fault variant of MinutesBetween: the + 1 is missing.
MinutesBetweenExclusive(device) ==
    Frac(device.LastHeartbeat - device.FirstHeartbeat, TicksPerMinute)

\* LastHeartbeat.Sub(FirstHeartbeat).Minutes() + 1, as a fraction of minutes.
MinutesBetween(device) ==
    Frac((device.LastHeartbeat - device.FirstHeartbeat) + TicksPerMinute, TicksPerMinute)

\* Fault variant of Uptime: the cap at 100 is missing.
UptimeUncapped(device) ==
    IF device.HeartbeatCount = 1
    THEN Hundred
    ELSE LET m == MinutesBetween(device)
         IN IF m.num = 0
            THEN Hundred
            ELSE Frac(device.HeartbeatCount * 100 * m.den, m.num)

\* The uptime branch of GetStats for a record with HeartbeatCount > 0.  A float64
\* division by zero yields +Inf (the count is positive), which the cap turns to 100.
Uptime(device) ==
    IF device.HeartbeatCount = 1
    THEN Hundred
    ELSE LET m == MinutesBetween(device)
         IN IF m.num = 0
            THEN Hundred
            ELSE LET u == Frac(device.HeartbeatCount * 100 * m.den, m.num)
                 IN IF ~FracLE(u, Hundred) THEN Hundred ELSE u

AvgUploadTime(device) == TruncDiv(device.UploadTimeSum, device.UploadCount)

\* The divisors GetStats divides by for this record.
Divisors(device) ==
    (IF device.HeartbeatCount > 0 /\ device.HeartbeatCount # 1
     THEN {MinutesBetween(device)} ELSE {})
    \cup
    (IF device.UploadCount > 0 THEN {Frac(device.UploadCount, 1)} ELSE {})

\* Fault variant of Stats: heartbeat data is reported from the second heartbeat on.
StatsFromSecondHeartbeat(device) ==
    [HasHeartbeats |-> device.HeartbeatCount > 1,
     HasUploads    |-> device.UploadCount > 0,
     Uptime        |-> IF device.HeartbeatCount > 1 THEN Uptime(device) ELSE ZeroFrac,
     AvgUploadTime |-> IF device.UploadCount > 0 THEN AvgUploadTime(device) ELSE 0]

\* The StatsResult GetStats builds from a record it found.
Stats(device) ==
    [HasHeartbeats |-> device.HeartbeatCount > 0,
     HasUploads    |-> device.UploadCount > 0,
     Uptime        |-> IF device.HeartbeatCount > 0 THEN Uptime(device) ELSE ZeroFrac,
     AvgUploadTime |-> IF device.UploadCount > 0 THEN AvgUploadTime(device) ELSE 0]

\* ------------------------------------------------------------ sync.RWMutex
\* Fault variant of CanLock: a writer does not wait for the readers to leave.
CanLockIgnoringReaders == ~mu.w

\* Lock returns once no writer and no reader holds the mutex; RLock once no
\* writer holds it.  Go's RWMutex also holds new readers back while a writer
\* waits; leaving that out only adds interleavings.
CanLock == ~mu.w /\ mu.r = 0

\* Fault variant of CanRLock: a plain Mutex, one reader at a time.
CanRLockExclusive == ~mu.w /\ mu.r = 0

CanRLock == ~mu.w

\* ------------------------------------------------------------------ Init
Init ==
    /\ devices = NewStore
    /\ mu = [w |-> FALSE, r |-> 0]
    /\ mainpc = "open"
    /\ records = <<>>
    /\ i = 0
    /\ configErr = FALSE
    /\ pc = [p \in Procs |-> "idle"]
    /\ call = [p \in Procs |-> NoCall]
    /\ tmp = [p \in Procs |-> 0]
    /\ ret = [p \in Procs |-> NoRet]
    /\ calls = 0
    /\ roster = {}
    /\ committed = NewStore
    /\ hbOk = [d \in DeviceIDs |-> 0]
    /\ upOk = [d \in DeviceIDs |-> 0]
    /\ firstOk = [d \in DeviceIDs |-> {}]
    /\ lastLocked = [d \in DeviceIDs |-> {}]
    /\ upSum = [d \in DeviceIDs |-> 0]
    /\ hbMinute = [d \in DeviceIDs |-> NoMinute]
    /\ hbOrdered = [d \in DeviceIDs |-> TRUE]
    /\ upKinds = [d \in DeviceIDs |-> {}]
    /\ req = [p \in Procs |-> NoRequest]
    /\ resp = [p \in Procs |-> NoResponse]
    /\ now = [p \in Procs |-> ZeroTime]
    /\ hdl = [p \in Procs |-> NoHandler]

\* ------------------------------------------------- main, LoadDevicesFromCSV
\* Fault variant of LoadFail: the error is logged and dropped.
LoadFailDropped ==
    /\ mainpc = "open"
    /\ configErr' = FALSE
    /\ mainpc' = "newserver"
    /\ UNCHANGED <<httpVars, storeVars, records, i, pc, call, tmp, ret, calls, histVars>>

\* os.Open or reader.ReadAll fails: the error is returned before the lock is taken.
LoadFail ==
    /\ mainpc = "open"
    /\ configErr' = TRUE
    /\ mainpc' = "newserver"
    /\ UNCHANGED <<httpVars, storeVars, records, i, pc, call, tmp, ret, calls, histVars>>

LoadRead ==
    /\ mainpc = "open"
    /\ \E f \in CsvFiles : records' = f
    /\ mainpc' = "lock"
    /\ UNCHANGED <<httpVars, storeVars, i, configErr, pc, call, tmp, ret, calls, histVars>>

\* Fault variant of LoadLock: the loop starts at the header row.
LoadLockFromHeader ==
    /\ mainpc = "lock"
    /\ CanLock
    /\ mu' = [mu EXCEPT !.w = TRUE]
    /\ i' = 0
    /\ mainpc' = "loop"
    /\ UNCHANGED <<httpVars, devices, records, configErr, pc, call, tmp, ret, calls, histVars>>

LoadLock ==
    /\ mainpc = "lock"
    /\ CanLock
    /\ mu' = [mu EXCEPT !.w = TRUE]
    /\ i' = 1
    /\ mainpc' = "loop"
    /\ UNCHANGED <<httpVars, devices, records, configErr, pc, call, tmp, ret, calls, histVars>>

\* One iteration of the loop over the data rows; records[i] of the code is
\* records[i + 1] here, sequences being 1-based.
LoadRow ==
    /\ mainpc = "loop"
    /\ i < Len(records)
    /\ LET row == records[i + 1]
       IN IF Len(row) > 0 /\ row[1] # ""
          THEN devices' = [x \in DOMAIN devices \cup {row[1]} |->
                              IF x = row[1] THEN DeviceStats(x) ELSE devices[x]]
          ELSE devices' = devices
    /\ i' = i + 1
    /\ UNCHANGED <<httpVars, mu, mainpc, records, configErr, pc, call, tmp, ret, calls, histVars>>

\* The loop ends, nil is returned and the deferred Unlock runs.
LoadUnlock ==
    /\ mainpc = "loop"
    /\ ~(i < Len(records))
    /\ mu' = [mu EXCEPT !.w = FALSE]
    /\ mainpc' = "newserver"
    /\ committed' = devices
    /\ roster' = DOMAIN devices
    /\ UNCHANGED <<httpVars, devices, records, i, configErr, pc, call, tmp, ret, calls,
                   hbOk, upOk, firstOk, lastLocked, upSum, hbMinute, hbOrdered, upKinds>>

\* NewServer(store, configErr), then ListenAndServe: requests are served from here on.
MainServe ==
    /\ mainpc = "newserver"
    /\ mainpc' = "serve"
    /\ UNCHANGED <<httpVars, storeVars, records, i, configErr, pc, call, tmp, ret, calls, histVars>>

\* ------------------------------------------------------ goroutine helpers
\* Fault variant of Serving: the server listens while the roster is loaded.
ServingDuringLoad == mainpc \in {"loop", "newserver", "serve"}

Serving == mainpc = "serve"

At(p, op, where) == pc[p] = where /\ call[p].op = op

Goto(p, where) == pc' = [pc EXCEPT ![p] = where]

Known(id) == id \in DOMAIN devices

\* The methods of the store that write a record.
Writers == {"RecordHeartbeat", "RecordUploadStat"}

\* The method returns: the goroutine is free for its next call.
Return(p) ==
    /\ pc' = [pc EXCEPT ![p] = "idle"]
    /\ call' = [call EXCEPT ![p] = NoCall]
    /\ tmp' = [tmp EXCEPT ![p] = 0]
    /\ ret' = [ret EXCEPT ![p] = NoRet]

\* --------------------------------------------------------- RecordHeartbeat
\* A goroutine enters the method and blocks in Lock.  The method reads its
\* arguments only once it holds the lock, so they are drawn when Lock returns.
CallRecordHeartbeat(p) ==
    /\ Serving
    /\ pc[p] = "idle"
    /\ calls < MaxCalls
    /\ call' = [call EXCEPT ![p] = [NoCall EXCEPT !.op = "RecordHeartbeat"]]
    /\ Goto(p, "lock")
    /\ calls' = calls + 1
    /\ UNCHANGED <<httpVars, storeVars, loadVars, tmp, ret, histVars>>

\* Fault variant of RecordHeartbeatLock: the method does not wait for the lock.
RecordHeartbeatLockMissing(p) ==
    /\ At(p, "RecordHeartbeat", "lock")
    /\ mu' = [mu EXCEPT !.w = TRUE]
    /\ Goto(p, "lookup")
    /\ \E id \in DeviceIDs, t \in Times :
          /\ call' = [call EXCEPT ![p].id = id, ![p].sentAt = t]
          /\ lastLocked' = IF Known(id) THEN [lastLocked EXCEPT ![id] = {t}] ELSE lastLocked
    /\ UNCHANGED <<httpVars, devices, loadVars, tmp, ret, calls, roster, committed, hbOk, upOk, firstOk,
                   upSum, hbMinute, hbOrdered, upKinds>>

\* s.mu.Lock() returns; deviceID and sentAt are the arguments of the call.
RecordHeartbeatLock(p) ==
    /\ At(p, "RecordHeartbeat", "lock")
    /\ CanLock
    /\ mu' = [mu EXCEPT !.w = TRUE]
    /\ Goto(p, "lookup")
    /\ \E id \in DeviceIDs, t \in Times :
          /\ call' = [call EXCEPT ![p].id = id, ![p].sentAt = t]
          /\ lastLocked' = IF Known(id) THEN [lastLocked EXCEPT ![id] = {t}] ELSE lastLocked
    /\ UNCHANGED <<httpVars, devices, loadVars, tmp, ret, calls, roster, committed, hbOk, upOk, firstOk,
                   upSum, hbMinute, hbOrdered, upKinds>>

\* Fault variant of RecordHeartbeatLookup: an unknown device is registered on
\* the fly instead of being refused.
RecordHeartbeatLookupRegisters(p) ==
    /\ At(p, "RecordHeartbeat", "lookup")
    /\ devices' = IF Known(call[p].id)
                  THEN devices
                  ELSE [x \in DOMAIN devices \cup {call[p].id} |->
                           IF x = call[p].id THEN DeviceStats(x) ELSE devices[x]]
    /\ Goto(p, "load")
    /\ UNCHANGED <<httpVars, mu, loadVars, call, tmp, ret, calls, histVars>>

\* Fault variant of RecordHeartbeatLookup: the unknown-device path returns
\* without releasing the lock.
RecordHeartbeatLookupLeaks(p) ==
    /\ At(p, "RecordHeartbeat", "lookup")
    /\ IF Known(call[p].id)
       THEN Goto(p, "load") /\ UNCHANGED <<call, tmp, ret>>
       ELSE Return(p)
    /\ UNCHANGED <<httpVars, storeVars, loadVars, calls, histVars>>

\* device, exists := s.devices[deviceID]; if !exists { return false }
RecordHeartbeatLookup(p) ==
    /\ At(p, "RecordHeartbeat", "lookup")
    /\ IF Known(call[p].id)
       THEN Goto(p, "load") /\ ret' = ret
       ELSE Goto(p, "unlock") /\ ret' = [ret EXCEPT ![p].ok = FALSE]
    /\ UNCHANGED <<httpVars, storeVars, loadVars, call, tmp, calls, histVars>>

\* device.HeartbeatCount++ : the load
RecordHeartbeatLoadCount(p) ==
    /\ At(p, "RecordHeartbeat", "load")
    /\ tmp' = [tmp EXCEPT ![p] = devices[call[p].id].HeartbeatCount]
    /\ Goto(p, "store")
    /\ UNCHANGED <<httpVars, storeVars, loadVars, call, ret, calls, histVars>>

\* Fault variant of RecordHeartbeatStoreCount: -- where the code has ++.
RecordHeartbeatStoreCountDecrements(p) ==
    /\ At(p, "RecordHeartbeat", "store")
    /\ devices' = [devices EXCEPT ![call[p].id].HeartbeatCount = tmp[p] - 1]
    /\ Goto(p, "first")
    /\ UNCHANGED <<httpVars, mu, loadVars, call, tmp, ret, calls, histVars>>

\* Fault variant of RecordHeartbeatStoreCount: the lock is released once the
\* count is written, before the timestamps are.
RecordHeartbeatStoreCountUnlocks(p) ==
    /\ At(p, "RecordHeartbeat", "store")
    /\ devices' = [devices EXCEPT ![call[p].id].HeartbeatCount = tmp[p] + 1]
    /\ mu' = [mu EXCEPT !.w = FALSE]
    /\ Goto(p, "first")
    /\ UNCHANGED <<httpVars, loadVars, call, tmp, ret, calls, histVars>>

\* device.HeartbeatCount++ : the store
RecordHeartbeatStoreCount(p) ==
    /\ At(p, "RecordHeartbeat", "store")
    /\ devices' = [devices EXCEPT ![call[p].id].HeartbeatCount = tmp[p] + 1]
    /\ Goto(p, "first")
    /\ UNCHANGED <<httpVars, mu, loadVars, call, tmp, ret, calls, histVars>>

\* if device.FirstHeartbeat.IsZero() { device.FirstHeartbeat = sentAt }
RecordHeartbeatFirst(p) ==
    /\ At(p, "RecordHeartbeat", "first")
    /\ devices' = [devices EXCEPT ![call[p].id].FirstHeartbeat =
                      IF IsZero(@) THEN call[p].sentAt ELSE @]
    /\ Goto(p, "last")
    /\ UNCHANGED <<httpVars, mu, loadVars, call, tmp, ret, calls, histVars>>

\* Fault variant of RecordHeartbeatLast: LastHeartbeat only moves forward.
RecordHeartbeatLastMonotonic(p) ==
    /\ At(p, "RecordHeartbeat", "last")
    /\ devices' = [devices EXCEPT ![call[p].id].LastHeartbeat =
                      IF call[p].sentAt > @ THEN call[p].sentAt ELSE @]
    /\ ret' = [ret EXCEPT ![p].ok = TRUE]
    /\ Goto(p, "unlock")
    /\ UNCHANGED <<httpVars, mu, loadVars, call, tmp, calls, histVars>>

\* device.LastHeartbeat = sentAt; return true
RecordHeartbeatLast(p) ==
    /\ At(p, "RecordHeartbeat", "last")
    /\ devices' = [devices EXCEPT ![call[p].id].LastHeartbeat = call[p].sentAt]
    /\ ret' = [ret EXCEPT ![p].ok = TRUE]
    /\ Goto(p, "unlock")
    /\ UNCHANGED <<httpVars, mu, loadVars, call, tmp, calls, histVars>>

\* The deferred s.mu.Unlock(), and the return to the caller.
RecordHeartbeatUnlock(p) ==
    /\ At(p, "RecordHeartbeat", "unlock")
    /\ mu' = [mu EXCEPT !.w = FALSE]
    /\ Return(p)
    /\ committed' = devices
    /\ hbOk' = [hbOk EXCEPT ![call[p].id] = IF ret[p].ok THEN @ + 1 ELSE @]
    /\ firstOk' = [firstOk EXCEPT ![call[p].id] =
                      IF ret[p].ok /\ @ = {} THEN {call[p].sentAt} ELSE @]
    /\ hbMinute' = [hbMinute EXCEPT ![call[p].id] =
                        IF ret[p].ok THEN MinuteSeen(@, call[p].sentAt) ELSE @]
    /\ hbOrdered' = [hbOrdered EXCEPT ![call[p].id] =
                         IF ret[p].ok
                         THEN StillOrdered(@, committed[call[p].id], call[p].sentAt)
                         ELSE @]
    /\ UNCHANGED <<httpVars, devices, loadVars, calls, roster, upOk, lastLocked, upSum, upKinds>>

RecordHeartbeat(p) ==
    \/ CallRecordHeartbeat(p)
    \/ RecordHeartbeatLock(p)
    \/ RecordHeartbeatLookup(p)
    \/ RecordHeartbeatLoadCount(p)
    \/ RecordHeartbeatStoreCount(p)
    \/ RecordHeartbeatFirst(p)
    \/ RecordHeartbeatLast(p)
    \/ RecordHeartbeatUnlock(p)

\* -------------------------------------------------------- RecordUploadStat
CallRecordUploadStat(p) ==
    /\ Serving
    /\ pc[p] = "idle"
    /\ calls < MaxCalls
    /\ call' = [call EXCEPT ![p] = [NoCall EXCEPT !.op = "RecordUploadStat"]]
    /\ Goto(p, "lock")
    /\ calls' = calls + 1
    /\ UNCHANGED <<httpVars, storeVars, loadVars, tmp, ret, histVars>>

\* s.mu.Lock() returns; deviceID and uploadTime are the arguments of the call.
RecordUploadStatLock(p) ==
    /\ At(p, "RecordUploadStat", "lock")
    /\ CanLock
    /\ mu' = [mu EXCEPT !.w = TRUE]
    /\ Goto(p, "lookup")
    /\ \E id \in DeviceIDs, d \in Durations :
          call' = [call EXCEPT ![p].id = id, ![p].uploadTime = d]
    /\ UNCHANGED <<httpVars, devices, loadVars, tmp, ret, calls, histVars>>

\* Fault variant of RecordUploadStatLookup: an unknown device is registered on
\* the fly instead of being refused.
RecordUploadStatLookupRegisters(p) ==
    /\ At(p, "RecordUploadStat", "lookup")
    /\ devices' = IF Known(call[p].id)
                  THEN devices
                  ELSE [x \in DOMAIN devices \cup {call[p].id} |->
                           IF x = call[p].id THEN DeviceStats(x) ELSE devices[x]]
    /\ Goto(p, "load")
    /\ UNCHANGED <<httpVars, mu, loadVars, call, tmp, ret, calls, histVars>>

\* device, exists := s.devices[deviceID]; if !exists { return false }
RecordUploadStatLookup(p) ==
    /\ At(p, "RecordUploadStat", "lookup")
    /\ IF Known(call[p].id)
       THEN Goto(p, "load") /\ ret' = ret
       ELSE Goto(p, "unlock") /\ ret' = [ret EXCEPT ![p].ok = FALSE]
    /\ UNCHANGED <<httpVars, storeVars, loadVars, call, tmp, calls, histVars>>

\* device.UploadCount++ : the load
RecordUploadStatLoadCount(p) ==
    /\ At(p, "RecordUploadStat", "load")
    /\ tmp' = [tmp EXCEPT ![p] = devices[call[p].id].UploadCount]
    /\ Goto(p, "store")
    /\ UNCHANGED <<httpVars, storeVars, loadVars, call, ret, calls, histVars>>

\* Fault variant of RecordUploadStatStoreCount: the incremented upload count
\* is written to HeartbeatCount.
RecordUploadStatStoreCountWrongField(p) ==
    /\ At(p, "RecordUploadStat", "store")
    /\ devices' = [devices EXCEPT ![call[p].id].HeartbeatCount = tmp[p] + 1]
    /\ Goto(p, "loadsum")
    /\ UNCHANGED <<httpVars, mu, loadVars, call, tmp, ret, calls, histVars>>

\* device.UploadCount++ : the store
RecordUploadStatStoreCount(p) ==
    /\ At(p, "RecordUploadStat", "store")
    /\ devices' = [devices EXCEPT ![call[p].id].UploadCount = tmp[p] + 1]
    /\ Goto(p, "loadsum")
    /\ UNCHANGED <<httpVars, mu, loadVars, call, tmp, ret, calls, histVars>>

\* device.UploadTimeSum += uploadTime : the load
RecordUploadStatLoadSum(p) ==
    /\ At(p, "RecordUploadStat", "loadsum")
    /\ tmp' = [tmp EXCEPT ![p] = devices[call[p].id].UploadTimeSum]
    /\ Goto(p, "storesum")
    /\ UNCHANGED <<httpVars, storeVars, loadVars, call, ret, calls, histVars>>

\* device.UploadTimeSum += uploadTime : the store; return true
RecordUploadStatStoreSum(p) ==
    /\ At(p, "RecordUploadStat", "storesum")
    /\ devices' = [devices EXCEPT ![call[p].id].UploadTimeSum =
                      WrapInt64(tmp[p] + call[p].uploadTime)]
    /\ ret' = [ret EXCEPT ![p].ok = TRUE]
    /\ Goto(p, "unlock")
    /\ UNCHANGED <<httpVars, mu, loadVars, call, tmp, calls, histVars>>

\* The deferred s.mu.Unlock(), and the return to the caller.
RecordUploadStatUnlock(p) ==
    /\ At(p, "RecordUploadStat", "unlock")
    /\ mu' = [mu EXCEPT !.w = FALSE]
    /\ Return(p)
    /\ committed' = devices
    /\ upOk' = [upOk EXCEPT ![call[p].id] = IF ret[p].ok THEN @ + 1 ELSE @]
    /\ upSum' = [upSum EXCEPT ![call[p].id] =
                     IF ret[p].ok THEN @ + call[p].uploadTime ELSE @]
    /\ upKinds' = [upKinds EXCEPT ![call[p].id] =
                       IF ret[p].ok THEN @ \cup {Sign(call[p].uploadTime)} ELSE @]
    /\ UNCHANGED <<httpVars, devices, loadVars, calls, roster, hbOk, firstOk, lastLocked, hbMinute, hbOrdered>>

RecordUploadStat(p) ==
    \/ CallRecordUploadStat(p)
    \/ RecordUploadStatLock(p)
    \/ RecordUploadStatLookup(p)
    \/ RecordUploadStatLoadCount(p)
    \/ RecordUploadStatStoreCount(p)
    \/ RecordUploadStatLoadSum(p)
    \/ RecordUploadStatStoreSum(p)
    \/ RecordUploadStatUnlock(p)

\* ------------------------------------------------------------ the readers
CallReader(p, op) ==
    /\ Serving
    /\ pc[p] = "idle"
    /\ calls < MaxCalls
    /\ call' = [call EXCEPT ![p] = [NoCall EXCEPT !.op = op]]
    /\ Goto(p, "rlock")
    /\ calls' = calls + 1
    /\ UNCHANGED <<httpVars, storeVars, loadVars, tmp, ret, histVars>>

\* Fault variant of RLock: the reader does not wait for the lock.
RLockMissing(p, op, ids) ==
    /\ At(p, op, "rlock")
    /\ mu' = [mu EXCEPT !.r = @ + 1]
    /\ Goto(p, "read")
    /\ \E id \in ids : call' = [call EXCEPT ![p].id = id]
    /\ UNCHANGED <<httpVars, devices, loadVars, tmp, ret, calls, histVars>>

\* s.mu.RLock() returns; the ids are the values deviceID can take in the call.
RLock(p, op, ids) ==
    /\ At(p, op, "rlock")
    /\ CanRLock
    /\ mu' = [mu EXCEPT !.r = @ + 1]
    /\ Goto(p, "read")
    /\ \E id \in ids : call' = [call EXCEPT ![p].id = id]
    /\ UNCHANGED <<httpVars, devices, loadVars, tmp, ret, calls, histVars>>

\* The deferred s.mu.RUnlock(), and the return to the caller.
RUnlock(p, op) ==
    /\ At(p, op, "runlock")
    /\ mu' = [mu EXCEPT !.r = @ - 1]
    /\ Return(p)
    /\ UNCHANGED <<httpVars, devices, loadVars, calls, histVars>>

\* Fault variant of ReadBody: looking up an id that is not a key inserts a zero record.
ReadBodyInserts(p, op, value) ==
    /\ At(p, op, "read")
    /\ ret' = [ret EXCEPT ![p] = value]
    /\ Goto(p, "runlock")
    /\ devices' = IF op # "DeviceCount" /\ ~Known(call[p].id)
                  THEN [x \in DOMAIN devices \cup {call[p].id} |->
                           IF x = call[p].id THEN DeviceStats(x) ELSE devices[x]]
                  ELSE devices
    /\ UNCHANGED <<httpVars, mu, loadVars, call, tmp, calls, histVars>>

\* The body of a reader: it computes the value to return from the map.
ReadBody(p, op, value) ==
    /\ At(p, op, "read")
    /\ ret' = [ret EXCEPT ![p] = value]
    /\ Goto(p, "runlock")
    /\ UNCHANGED <<httpVars, storeVars, loadVars, call, tmp, calls, histVars>>

\* _, exists := s.devices[deviceID]; return exists
DeviceExistsResult(id) == [NoRet EXCEPT !.ok = Known(id)]

DeviceExists(p) ==
    \/ CallReader(p, "DeviceExists")
    \/ RLock(p, "DeviceExists", DeviceIDs)
    \/ ReadBody(p, "DeviceExists", DeviceExistsResult(call[p].id))
    \/ RUnlock(p, "DeviceExists")

\* Fault variant of GetStatsResult: a record without data is reported as not found.
GetStatsResultHidesEmpty(id) ==
    IF ~Known(id) \/ (devices[id].HeartbeatCount = 0 /\ devices[id].UploadCount = 0)
    THEN [NoRet EXCEPT !.ok = FALSE]
    ELSE [ok |-> TRUE, stats |-> Stats(devices[id]), n |-> 0,
          divisors |-> Divisors(devices[id])]

\* The (StatsResult, bool) GetStats returns, with the divisors it used.
GetStatsResult(id) ==
    IF ~Known(id)
    THEN [NoRet EXCEPT !.ok = FALSE]
    ELSE [ok |-> TRUE, stats |-> Stats(devices[id]), n |-> 0,
          divisors |-> Divisors(devices[id])]

GetStats(p) ==
    \/ CallReader(p, "GetStats")
    \/ RLock(p, "GetStats", DeviceIDs)
    \/ ReadBody(p, "GetStats", GetStatsResult(call[p].id))
    \/ RUnlock(p, "GetStats")

\* return len(s.devices)
DeviceCountResult == [NoRet EXCEPT !.n = Cardinality(DOMAIN devices)]

DeviceCount(p) ==
    \/ CallReader(p, "DeviceCount")
    \/ RLock(p, "DeviceCount", {""})
    \/ ReadBody(p, "DeviceCount", DeviceCountResult)
    \/ RUnlock(p, "DeviceCount")

\* ------------------------------------------------------------------- Spec
LoadDevicesFromCSV == LoadFail \/ LoadRead \/ LoadLock \/ LoadRow \/ LoadUnlock

Next ==
    \/ LoadDevicesFromCSV
    \/ MainServe
    \/ \E p \in Procs :
          \/ RecordHeartbeat(p)
          \/ RecordUploadStat(p)
          \/ DeviceExists(p)
          \/ GetStats(p)
          \/ DeviceCount(p)

Spec == Init /\ [][Next]_vars

\* ------------------------------------------------------- fair scheduling
\* The goroutine p takes a lock: Lock or RLock returns.
Acquire(p) ==
    \/ RecordHeartbeatLock(p)
    \/ RecordUploadStatLock(p)
    \/ RLock(p, "DeviceExists", DeviceIDs)
    \/ RLock(p, "GetStats", DeviceIDs)
    \/ RLock(p, "DeviceCount", {""})

\* The goroutine p, holding a lock, runs a statement of its method or the
\* deferred unlock.
Complete(p) ==
    \/ RecordHeartbeatLookup(p)
    \/ RecordHeartbeatLoadCount(p)
    \/ RecordHeartbeatStoreCount(p)
    \/ RecordHeartbeatFirst(p)
    \/ RecordHeartbeatLast(p)
    \/ RecordHeartbeatUnlock(p)
    \/ RecordUploadStatLookup(p)
    \/ RecordUploadStatLoadCount(p)
    \/ RecordUploadStatStoreCount(p)
    \/ RecordUploadStatLoadSum(p)
    \/ RecordUploadStatStoreSum(p)
    \/ RecordUploadStatUnlock(p)
    \/ ReadBody(p, "DeviceExists", DeviceExistsResult(call[p].id))
    \/ ReadBody(p, "GetStats", GetStatsResult(call[p].id))
    \/ ReadBody(p, "DeviceCount", DeviceCountResult)
    \/ RUnlock(p, "DeviceExists")
    \/ RUnlock(p, "GetStats")
    \/ RUnlock(p, "DeviceCount")

\* Termination does not depend on the values recorded: the calls of the fair
\* specification carry one timestamp and one duration, for a registered and
\* for an unregistered device.
LiveTime == TicksPerMinute
LiveDuration == MaxDuration

LiveIDs == {"d1", "zz"}

LiveInputs ==
    \A p \in Procs : /\ call[p].id \in LiveIDs \cup {NoCall.id}
                     /\ call[p].sentAt \in {ZeroTime, LiveTime}
                     /\ call[p].uploadTime \in {NoCall.uploadTime, LiveDuration}

NextLive == Next /\ LiveInputs'

\* The Go scheduler runs every runnable goroutine, so a goroutine inside a
\* method goes on (weak fairness).  A goroutine blocked in Lock or RLock gets
\* the mutex even if it is free only now and then (strong fairness):
\* sync.RWMutex holds new readers back while a writer waits and hands a
\* starving waiter the lock first.
Fairness ==
    \A p \in Procs : WF_vars(Complete(p) /\ LiveInputs') /\ SF_vars(Acquire(p) /\ LiveInputs')

SpecLive == Init /\ [][NextLive]_vars /\ Fairness

\* ------------------------------------------------- the store's unit tests
\* store_test.go drives one store from a single goroutine: it puts the record
\* of "device-1" in the map by hand, calls the recording methods one after the
\* other and reads the result with GetStats.  With no other goroutine a call
\* runs from Lock to Unlock undisturbed, so each call is one step here.
TestID == "d1"

Tester == CHOOSE p \in Procs : \A q \in Procs : p <= q

TestTimes == 0..MaxTestTime

\* Durations are nanoseconds.  The tests upload multiples of 5 s, which stay
\* multiples when averaged; they are taken here as the same multiples of 5 ns.
\* One negative duration stands for the values the store accepts unvalidated,
\* and a quarter of the int64 range for the large positive ones.
UploadStep == 5
TestDurations ==
    {-1, 2^(DurationBits - 2)} \cup {k * UploadStep : k \in 0..MaxTestUploadSteps}

\* baseTime of the tests: a whole minute that is not the zero time.
BaseTime == TicksPerMinute

\* Fault variant of RecordHeartbeatBody: the two timestamps change roles.
RecordHeartbeatBodySwapped(device, sentAt) ==
    [device EXCEPT !.HeartbeatCount = @ + 1,
                   !.FirstHeartbeat = sentAt,
                   !.LastHeartbeat = IF IsZero(@) THEN sentAt ELSE @]

\* The statements of RecordHeartbeat between the lookup and the return.
RecordHeartbeatBody(device, sentAt) ==
    [device EXCEPT !.HeartbeatCount = @ + 1,
                   !.FirstHeartbeat = IF IsZero(@) THEN sentAt ELSE @,
                   !.LastHeartbeat = sentAt]

\* The statements of RecordUploadStat between the lookup and the return.
RecordUploadStatBody(device, uploadTime) ==
    [device EXCEPT !.UploadCount = @ + 1,
                   !.UploadTimeSum = WrapInt64(@ + uploadTime)]

InitTest ==
    /\ devices = [d \in {TestID} |-> DeviceStats(d)]
    /\ mu = [w |-> FALSE, r |-> 0]
    /\ mainpc = "test"
    /\ records = <<>>
    /\ i = 0
    /\ configErr = FALSE
    /\ pc = [p \in Procs |-> "idle"]
    /\ call = [p \in Procs |-> NoCall]
    /\ tmp = [p \in Procs |-> 0]
    /\ ret = [p \in Procs |-> NoRet]
    /\ calls = 0
    /\ roster = {TestID}
    /\ committed = [d \in {TestID} |-> DeviceStats(d)]
    /\ hbOk = [d \in DeviceIDs |-> 0]
    /\ upOk = [d \in DeviceIDs |-> 0]
    /\ firstOk = [d \in DeviceIDs |-> {}]
    /\ lastLocked = [d \in DeviceIDs |-> {}]
    /\ upSum = [d \in DeviceIDs |-> 0]
    /\ hbMinute = [d \in DeviceIDs |-> NoMinute]
    /\ hbOrdered = [d \in DeviceIDs |-> TRUE]
    /\ upKinds = [d \in DeviceIDs |-> {}]
    /\ req = [p \in Procs |-> NoRequest]
    /\ resp = [p \in Procs |-> NoResponse]
    /\ now = [p \in Procs |-> ZeroTime]
    /\ hdl = [p \in Procs |-> NoHandler]

\* s.RecordHeartbeat("device-1", t), from the call to its return.
TestRecordHeartbeat ==
    /\ mainpc = "test"
    /\ calls < MaxTestWrites
    /\ \E t \in TestTimes :
          /\ devices' = [devices EXCEPT ![TestID] = RecordHeartbeatBody(@, t)]
          /\ firstOk' = [firstOk EXCEPT ![TestID] = IF @ = {} THEN {t} ELSE @]
          /\ lastLocked' = [lastLocked EXCEPT ![TestID] = {t}]
          /\ hbMinute' = [hbMinute EXCEPT ![TestID] = MinuteSeen(@, t)]
          /\ hbOrdered' = [hbOrdered EXCEPT ![TestID] = StillOrdered(@, devices[TestID], t)]
    /\ committed' = devices'
    /\ hbOk' = [hbOk EXCEPT ![TestID] = @ + 1]
    /\ calls' = calls + 1
    /\ Return(Tester)
    /\ UNCHANGED <<httpVars, mu, loadVars, roster, upOk, upSum, upKinds>>

\* s.RecordUploadStat("device-1", d), from the call to its return.
TestRecordUploadStat ==
    /\ mainpc = "test"
    /\ calls < MaxTestWrites
    /\ \E d \in TestDurations :
          /\ devices' = [devices EXCEPT ![TestID] = RecordUploadStatBody(@, d)]
          /\ upSum' = [upSum EXCEPT ![TestID] = @ + d]
          /\ upKinds' = [upKinds EXCEPT ![TestID] = @ \cup {Sign(d)}]
    /\ committed' = devices'
    /\ upOk' = [upOk EXCEPT ![TestID] = @ + 1]
    /\ calls' = calls + 1
    /\ Return(Tester)
    /\ UNCHANGED <<httpVars, mu, loadVars, roster, hbOk, firstOk, lastLocked, hbMinute, hbOrdered>>

\* result, _ := s.GetStats("device-1"): the test holds the result.
TestGetStats ==
    /\ mainpc = "test"
    /\ pc[Tester] = "idle"
    /\ call' = [call EXCEPT ![Tester] = [NoCall EXCEPT !.op = "GetStats", !.id = TestID]]
    /\ ret' = [ret EXCEPT ![Tester] = GetStatsResult(TestID)]
    /\ Goto(Tester, "returned")
    /\ UNCHANGED <<httpVars, storeVars, loadVars, tmp, calls, histVars>>

NextTest == TestRecordHeartbeat \/ TestRecordUploadStat \/ TestGetStats

SpecTest == InitTest /\ [][NextTest]_vars

\* -------------------------------------------------------- the HTTP server
\* handlers.go: every request is served by a goroutine of its own, through the
\* router, by one of three handlers that call the store.  A handler runs
\* statement by statement: it takes the store's lock inside each store method
\* it calls and has released it when it tests the result or writes a response.
\* maxUploadTime, one hour in the code, is scaled down to a few nanoseconds.
Methods == {"POST", "GET"}

PathOf(id, endpoint) == <<"", "api", "v1", "devices", id, endpoint>>

\* The device ids the requests name: a registered one and an unknown one.
HttpIDs == {"d1", "zz"}

\* The URL paths of the requests: strings.Split(path, "/") of each.
Paths == {PathOf(id, e) : id \in HttpIDs, e \in {"heartbeat", "stats"}}

\* parts[4] of the code is parts[5] here, sequences being 1-based.
extractDeviceID(path) == IF Len(path) >= 5 THEN path[5] ELSE ""

HasSuffix(path, endpoint) == Len(path) >= 2 /\ path[Len(path)] = endpoint

\* The handler the router's function picks for a method and a path.
Route(method, path) ==
    IF HasSuffix(path, "heartbeat") /\ method = "POST" THEN "HandleHeartbeat"
    ELSE IF HasSuffix(path, "stats") /\ method = "POST" THEN "HandlePostStats"
    ELSE IF HasSuffix(path, "stats") /\ method = "GET" THEN "HandleGetStats"
    ELSE "NotFound"

\* The upload_time values of the requests: around zero, around the limit, and
\* a quarter of the range of the accumulator.
HttpDurations == {-1, 0, 1, 2^(DurationBits - 2), maxUploadTime, maxUploadTime + 1}

\* Request bodies: text that is not JSON, or a JSON object; a field the object
\* lacks decodes to the zero value of its type.
BadBody == [NoBody EXCEPT !.json = "bad"]

\* The sent_at values of the requests: none, an early one and the latest one.
HttpTimes == {ZeroTime, 1, MaxTime}

\* The values time.Now() takes while a heartbeat is validated.
HttpClock == {MaxTime - TicksPerMinute - 1, MaxTime - TicksPerMinute}

\* What the devices post to /heartbeat: {"sent_at": t}, or {} for the zero time.
HeartbeatBodies ==
    {BadBody} \cup {[json |-> "ok", sent_at |-> t, upload_time |-> 0] : t \in HttpTimes}

\* What the devices post to /stats: {"upload_time": d}, or with a sent_at too.
StatsBodies ==
    {BadBody, [json |-> "ok", sent_at |-> MaxTime, upload_time |-> 1]} \cup
    {[json |-> "ok", sent_at |-> ZeroTime, upload_time |-> d] : d \in HttpDurations}

\* The error configErr holds when the load failed, as err.Error() renders it.
ConfigErrText == "open devices.csv: no such file or directory"

\* Fault variant of validateHeartbeatRequest: no limit on the clock skew.
validateHeartbeatRequestAnySkew(sentAt, timeNow) ==
    IF IsZero(sentAt) THEN "sent_at is required" ELSE ""

\* The message of the error the validation returns; "" for nil.
validateHeartbeatRequest(sentAt, timeNow) ==
    IF IsZero(sentAt) THEN "sent_at is required"
    ELSE IF sentAt > timeNow + TicksPerMinute THEN "sent_at cannot be in the future"
    ELSE ""

\* Fault variant of validateUploadStatRequest: a zero upload_time passes.
validateUploadStatRequestAllowsZero(uploadTime) ==
    IF uploadTime < 0 THEN "upload_time must be positive"
    ELSE IF uploadTime > maxUploadTime THEN "upload_time exceeds maximum"
    ELSE ""

validateUploadStatRequest(uploadTime) ==
    IF uploadTime <= 0 THEN "upload_time must be positive"
    ELSE IF uploadTime > maxUploadTime THEN "upload_time exceeds maximum"
    ELSE ""

\* time.Duration.String() for durations below a microsecond.
DurationString(d) == IF d = 0 THEN "0s" ELSE ToString(d) \o "ns"

ErrorResponse(status, msg) == [NoResponse EXCEPT !.status = status, !.msg = msg]

Handlers == {"HandleHeartbeat", "HandlePostStats", "HandleGetStats"}

\* The goroutine p runs the handler at the given statement and is inside no
\* method of the store.
InHandler(p, handler, where) ==
    hdl[p].op = handler /\ hdl[p].at = where /\ pc[p] = "idle"

HandlerGoto(p, where) == hdl' = [hdl EXCEPT ![p].at = where]

\* writeError, w.WriteHeader(204) or writeJSON(200): the response is written.
Respond(p, response) ==
    /\ resp' = [resp EXCEPT ![p] = response]
    /\ HandlerGoto(p, "responded")

\* A request arrives and the function registered with the mux picks its
\* handler, or http.NotFound.  calls counts the requests accepted.
Accept(p, limit) ==
    /\ Serving
    /\ hdl[p] = NoHandler
    /\ pc[p] = "idle"
    /\ calls < limit
    /\ \E m \in Methods, path \in Paths :
          /\ req' = [req EXCEPT ![p] = [NoRequest EXCEPT !.method = m, !.path = path]]
          /\ hdl' = [hdl EXCEPT ![p] = [NoHandler EXCEPT !.op = Route(m, path), !.at = "enter"]]
    /\ calls' = calls + 1
    /\ UNCHANGED <<storeVars, loadVars, pc, call, tmp, ret, resp, now, histVars>>

Router(p) == Accept(p, MaxRequests)

\* http.NotFound(w, r) for a request no handler is registered for.
NotFound(p) ==
    /\ InHandler(p, "NotFound", "enter")
    /\ Respond(p, ErrorResponse(404, "404 page not found"))
    /\ UNCHANGED <<storeVars, loadVars, pc, call, tmp, ret, calls, req, now, histVars>>

\* Fault variant of HandlerEnter: the configuration error is not looked at.
HandlerEnterUnchecked(p) ==
    /\ hdl[p].op \in Handlers /\ hdl[p].at = "enter"
    /\ hdl' = [hdl EXCEPT ![p].id = extractDeviceID(req[p].path),
                          ![p].at = IF hdl[p].op = "HandleGetStats" THEN "getstats"
                                                                    ELSE "exists"]
    /\ UNCHANGED <<storeVars, loadVars, pc, call, tmp, ret, calls, req, resp, now, histVars>>

\* The head of each handler: 500 if the server holds a configuration error,
\* else deviceID := extractDeviceID(r.URL.Path).
HandlerEnter(p) ==
    /\ hdl[p].op \in Handlers /\ hdl[p].at = "enter"
    /\ IF configErr
       THEN Respond(p, ErrorResponse(500, "server configuration error: " \o ConfigErrText))
       ELSE /\ hdl' = [hdl EXCEPT ![p].id = extractDeviceID(req[p].path),
                                  ![p].at = IF hdl[p].op = "HandleGetStats" THEN "getstats"
                                                                            ELSE "exists"]
            /\ UNCHANGED resp
    /\ UNCHANGED <<storeVars, loadVars, pc, call, tmp, ret, calls, req, now, histVars>>

\* The handler calls a reading method of the store with its deviceID:
\* s.mu.RLock() returns.
HandlerRLock(p, handler, where, op) ==
    /\ InHandler(p, handler, where)
    /\ CanRLock
    /\ mu' = [mu EXCEPT !.r = @ + 1]
    /\ call' = [call EXCEPT ![p] = [NoCall EXCEPT !.op = op, !.id = hdl[p].id]]
    /\ Goto(p, "read")
    /\ UNCHANGED <<httpVars, devices, loadVars, tmp, ret, calls, histVars>>

\* The deferred s.mu.RUnlock(); the handler holds what the method returned.
HandlerRUnlock(p, op, where) ==
    /\ At(p, op, "runlock")
    /\ mu' = [mu EXCEPT !.r = @ - 1]
    /\ Return(p)
    /\ hdl' = [hdl EXCEPT ![p].result = ret[p], ![p].at = where]
    /\ UNCHANGED <<devices, loadVars, calls, req, resp, now, histVars>>

\* Fault variant of HandlerExists: the body is parsed for unknown devices too.
HandlerExistsUnchecked(p) ==
    /\ hdl[p].op \in {"HandleHeartbeat", "HandlePostStats"}
    /\ hdl[p].at = "checked" /\ pc[p] = "idle"
    /\ HandlerGoto(p, "decode")
    /\ UNCHANGED <<storeVars, loadVars, pc, call, tmp, ret, calls, req, resp, now, histVars>>

\* if !s.store.DeviceExists(deviceID) { 404 }, the body not read yet.
HandlerExists(p) ==
    /\ hdl[p].op \in {"HandleHeartbeat", "HandlePostStats"}
    /\ hdl[p].at = "checked" /\ pc[p] = "idle"
    /\ IF ~hdl[p].result.ok
       THEN Respond(p, ErrorResponse(404, "device not found"))
       ELSE HandlerGoto(p, "decode") /\ UNCHANGED resp
    /\ UNCHANGED <<storeVars, loadVars, pc, call, tmp, ret, calls, req, now, histVars>>

\* json.NewDecoder(r.Body).Decode(&req): 400 if the body is not JSON.
HandlerDecode(p, handler, bodies) ==
    /\ InHandler(p, handler, "decode")
    /\ \E body \in bodies :
          /\ req' = [req EXCEPT ![p].body = body]
          /\ IF body.json = "bad"
             THEN Respond(p, ErrorResponse(400, "invalid JSON"))
             ELSE HandlerGoto(p, "validate") /\ UNCHANGED resp
    /\ UNCHANGED <<storeVars, loadVars, pc, call, tmp, ret, calls, now, histVars>>

\* validateHeartbeatRequest(&req) against time.Now(): 400 with its message.
HandleHeartbeatValidate(p) ==
    /\ InHandler(p, "HandleHeartbeat", "validate")
    /\ \E timeNow \in HttpClock :
          /\ now' = [now EXCEPT ![p] = timeNow]
          /\ IF validateHeartbeatRequest(req[p].body.sent_at, timeNow) # ""
             THEN Respond(p, ErrorResponse(400,
                      validateHeartbeatRequest(req[p].body.sent_at, timeNow)))
             ELSE HandlerGoto(p, "record") /\ UNCHANGED resp
    /\ UNCHANGED <<storeVars, loadVars, pc, call, tmp, ret, calls, req, histVars>>

\* s.store.RecordHeartbeat(deviceID, req.SentAt) is called: s.mu.Lock() returns.
HandleHeartbeatRecord(p) ==
    /\ InHandler(p, "HandleHeartbeat", "record")
    /\ CanLock
    /\ mu' = [mu EXCEPT !.w = TRUE]
    /\ call' = [call EXCEPT ![p] = [NoCall EXCEPT !.op = "RecordHeartbeat",
                                                  !.id = hdl[p].id,
                                                  !.sentAt = req[p].body.sent_at]]
    /\ Goto(p, "lookup")
    /\ lastLocked' = IF Known(hdl[p].id)
                     THEN [lastLocked EXCEPT ![hdl[p].id] = {req[p].body.sent_at}]
                     ELSE lastLocked
    /\ UNCHANGED <<httpVars, devices, loadVars, tmp, ret, calls, roster, committed, hbOk, upOk,
                   firstOk, upSum, hbMinute, hbOrdered, upKinds>>

\* The deferred s.mu.Unlock() of RecordHeartbeat; the bool it returns is
\* dropped by the handler, which goes on to write its response.
HandleHeartbeatRecorded(p) ==
    /\ At(p, "RecordHeartbeat", "unlock")
    /\ mu' = [mu EXCEPT !.w = FALSE]
    /\ Return(p)
    /\ hdl' = [hdl EXCEPT ![p].result = ret[p], ![p].at = "recorded"]
    /\ committed' = devices
    /\ hbOk' = [hbOk EXCEPT ![call[p].id] = IF ret[p].ok THEN @ + 1 ELSE @]
    /\ firstOk' = [firstOk EXCEPT ![call[p].id] =
                      IF ret[p].ok /\ @ = {} THEN {call[p].sentAt} ELSE @]
    /\ hbMinute' = [hbMinute EXCEPT ![call[p].id] =
                        IF ret[p].ok THEN MinuteSeen(@, call[p].sentAt) ELSE @]
    /\ hbOrdered' = [hbOrdered EXCEPT ![call[p].id] =
                         IF ret[p].ok
                         THEN StillOrdered(@, committed[call[p].id], call[p].sentAt)
                         ELSE @]
    /\ UNCHANGED <<devices, loadVars, calls, req, resp, now, roster, upOk, lastLocked, upSum,
                   upKinds>>

\* w.WriteHeader(http.StatusNoContent) once the recording method has returned.
HandlerNoContent(p) ==
    /\ hdl[p].op \in {"HandleHeartbeat", "HandlePostStats"}
    /\ hdl[p].at = "recorded" /\ pc[p] = "idle"
    /\ Respond(p, [NoResponse EXCEPT !.status = 204])
    /\ UNCHANGED <<storeVars, loadVars, pc, call, tmp, ret, calls, req, now, histVars>>

HandleHeartbeat(p) ==
    \/ HandlerRLock(p, "HandleHeartbeat", "exists", "DeviceExists")
    \/ HandlerDecode(p, "HandleHeartbeat", HeartbeatBodies)
    \/ HandleHeartbeatValidate(p)
    \/ HandleHeartbeatRecord(p)
    \/ RecordHeartbeatLookup(p)
    \/ RecordHeartbeatLoadCount(p)
    \/ RecordHeartbeatStoreCount(p)
    \/ RecordHeartbeatFirst(p)
    \/ RecordHeartbeatLast(p)
    \/ HandleHeartbeatRecorded(p)

\* validateUploadStatRequest(&req): 400 with its message.
HandlePostStatsValidate(p) ==
    /\ InHandler(p, "HandlePostStats", "validate")
    /\ IF validateUploadStatRequest(req[p].body.upload_time) # ""
       THEN Respond(p, ErrorResponse(400, validateUploadStatRequest(req[p].body.upload_time)))
       ELSE HandlerGoto(p, "record") /\ UNCHANGED resp
    /\ UNCHANGED <<storeVars, loadVars, pc, call, tmp, ret, calls, req, now, histVars>>

\* Fault variant of HandlePostStatsRecord: the store is not called.
HandlePostStatsRecordSkipped(p) ==
    /\ InHandler(p, "HandlePostStats", "record")
    /\ hdl' = [hdl EXCEPT ![p].at = "recorded", ![p].result = NoRet]
    /\ UNCHANGED <<storeVars, loadVars, pc, call, tmp, ret, calls, req, resp, now, histVars>>

\* s.store.RecordUploadStat(deviceID, time.Duration(req.UploadTime)) is called:
\* s.mu.Lock() returns.  req.SentAt is decoded and never read.
HandlePostStatsRecord(p) ==
    /\ InHandler(p, "HandlePostStats", "record")
    /\ CanLock
    /\ mu' = [mu EXCEPT !.w = TRUE]
    /\ call' = [call EXCEPT ![p] = [NoCall EXCEPT !.op = "RecordUploadStat",
                                                  !.id = hdl[p].id,
                                                  !.uploadTime = req[p].body.upload_time]]
    /\ Goto(p, "lookup")
    /\ UNCHANGED <<httpVars, devices, loadVars, tmp, ret, calls, histVars>>

\* The deferred s.mu.Unlock() of RecordUploadStat; the bool it returns is
\* dropped by the handler, which goes on to write its response.
HandlePostStatsRecorded(p) ==
    /\ At(p, "RecordUploadStat", "unlock")
    /\ mu' = [mu EXCEPT !.w = FALSE]
    /\ Return(p)
    /\ hdl' = [hdl EXCEPT ![p].result = ret[p], ![p].at = "recorded"]
    /\ committed' = devices
    /\ upOk' = [upOk EXCEPT ![call[p].id] = IF ret[p].ok THEN @ + 1 ELSE @]
    /\ upSum' = [upSum EXCEPT ![call[p].id] =
                     IF ret[p].ok THEN @ + call[p].uploadTime ELSE @]
    /\ upKinds' = [upKinds EXCEPT ![call[p].id] =
                       IF ret[p].ok THEN @ \cup {Sign(call[p].uploadTime)} ELSE @]
    /\ UNCHANGED <<devices, loadVars, calls, req, resp, now, roster, hbOk, firstOk, lastLocked,
                   hbMinute, hbOrdered>>

HandlePostStats(p) ==
    \/ HandlerRLock(p, "HandlePostStats", "exists", "DeviceExists")
    \/ HandlerDecode(p, "HandlePostStats", StatsBodies)
    \/ HandlePostStatsValidate(p)
    \/ HandlePostStatsRecord(p)
    \/ RecordUploadStatLookup(p)
    \/ RecordUploadStatLoadCount(p)
    \/ RecordUploadStatStoreCount(p)
    \/ RecordUploadStatLoadSum(p)
    \/ RecordUploadStatStoreSum(p)
    \/ HandlePostStatsRecorded(p)

\* Fault variant of StatsResponse: 204 whenever no upload is recorded.
StatsResponseNeedsUploads(result) ==
    IF ~result.ok THEN ErrorResponse(404, "device not found")
    ELSE IF ~result.stats.HasUploads
         THEN [NoResponse EXCEPT !.status = 204]
         ELSE [status |-> 200, msg |-> "", uptime |-> result.stats.Uptime,
               avg_upload_time |-> DurationString(result.stats.AvgUploadTime)]

\* The response HandleGetStats writes for what s.store.GetStats returned.
StatsResponse(result) ==
    IF ~result.ok THEN ErrorResponse(404, "device not found")
    ELSE IF ~result.stats.HasHeartbeats /\ ~result.stats.HasUploads
         THEN [NoResponse EXCEPT !.status = 204]
         ELSE [status |-> 200, msg |-> "", uptime |-> result.stats.Uptime,
               avg_upload_time |-> DurationString(result.stats.AvgUploadTime)]

\* HandleGetStats once s.store.GetStats has returned: the response is built
\* from the copy the handler holds, the store's lock released.
HandleGetStatsReply(p) ==
    /\ InHandler(p, "HandleGetStats", "got")
    /\ Respond(p, StatsResponse(hdl[p].result))
    /\ UNCHANGED <<storeVars, loadVars, pc, call, tmp, ret, calls, req, now, histVars>>

HandleGetStats(p) ==
    \/ HandlerRLock(p, "HandleGetStats", "getstats", "GetStats")
    \/ ReadBody(p, "GetStats", GetStatsResult(call[p].id))
    \/ HandlerRUnlock(p, "GetStats", "got")
    \/ HandleGetStatsReply(p)

\* The handler returns and its goroutine ends.
HandlerReturn(p) ==
    /\ hdl[p].at = "responded"
    /\ hdl' = [hdl EXCEPT ![p] = NoHandler]
    /\ req' = [req EXCEPT ![p] = NoRequest]
    /\ resp' = [resp EXCEPT ![p] = NoResponse]
    /\ now' = [now EXCEPT ![p] = ZeroTime]
    /\ UNCHANGED <<storeVars, loadVars, pc, call, tmp, ret, calls, histVars>>

\* The steps of a goroutine that serves a request.
Handle(p) ==
    \/ NotFound(p)
    \/ HandlerEnter(p)
    \/ ReadBody(p, "DeviceExists", DeviceExistsResult(call[p].id))
    \/ HandlerRUnlock(p, "DeviceExists", "checked")
    \/ HandlerExists(p)
    \/ HandleHeartbeat(p)
    \/ HandlePostStats(p)
    \/ HandlerNoContent(p)
    \/ HandleGetStats(p)
    \/ HandlerReturn(p)

NextHTTP ==
    \/ LoadDevicesFromCSV
    \/ MainServe
    \/ \E p \in Procs : Router(p) \/ Handle(p)

SpecHTTP == Init /\ [][NextHTTP]_vars

\* A client that sends its next request once the last is answered, as the
\* handler tests do: one goroutine at a time serves a request.
Client == CHOOSE p \in Procs : \A q \in Procs : p <= q

NextSerial ==
    \/ LoadDevicesFromCSV
    \/ MainServe
    \/ Accept(Client, MaxSerialRequests)
    \/ Handle(Client)

SpecSerial == Init /\ [][NextSerial]_vars

\* ----------------------------------------------------------- properties
InWriteSection(p) ==
    pc[p] \in {"lookup", "load", "store", "first", "last", "loadsum", "storesum", "unlock"}

InReadSection(p) == pc[p] \in {"read", "runlock"}

LoadInSection == mainpc = "loop"

LoadFinished == mainpc \in {"newserver", "serve"}

\* Goroutines inside RecordHeartbeat for d whose increment is already stored.
HeartbeatsApplied(d) ==
    {p \in Procs : /\ call[p].op = "RecordHeartbeat" /\ call[p].id = d
                   /\ pc[p] \in {"first", "last", "unlock"}}

\* Goroutines inside RecordUploadStat for d whose increment is already stored.
UploadsApplied(d) ==
    {p \in Procs : /\ call[p].op = "RecordUploadStat" /\ call[p].id = d
                   /\ pc[p] \in {"loadsum", "storesum", "unlock"}}

\* C1: no update is lost.  HeartbeatCount of a device is the number of
\* RecordHeartbeat calls for it that returned true plus those that have stored
\* their increment and not returned yet, in every interleaving; so once all N
\* concurrent calls have returned the count has grown by exactly N.  The same
\* holds for RecordUploadStat and UploadCount.
C1_NoLostUpdate ==
    \A d \in DOMAIN devices :
        /\ devices[d].HeartbeatCount = hbOk[d] + Cardinality(HeartbeatsApplied(d))
        /\ devices[d].UploadCount = upOk[d] + Cardinality(UploadsApplied(d))

\* Two RecordHeartbeat calls are in flight at once, one applied and about to
\* return for a device that already has a heartbeat, the other blocked in Lock.
C1_Witness ==
    \E p, q \in Procs :
        /\ p # q
        /\ At(p, "RecordHeartbeat", "unlock") /\ ret[p].ok
        /\ hbOk[call[p].id] >= 1
        /\ devices[call[p].id].HeartbeatCount = 2
        /\ At(q, "RecordHeartbeat", "lock")

\* C2: while a reader is inside its read-locked section the records are exactly
\* as the last completed writer left them: no reader sees a HeartbeatCount
\* that a RecordHeartbeat call has incremented without LastHeartbeat assigned.
C2_NoPartialHeartbeat ==
    (\E p \in Procs : InReadSection(p)) => devices = committed

\* GetStats has read a record with heartbeats while another goroutine is
\* blocked in RecordHeartbeat's Lock.
C2_Witness ==
    \E p, q \in Procs :
        /\ At(p, "GetStats", "runlock") /\ ret[p].ok /\ ret[p].stats.HasHeartbeats
        /\ At(q, "RecordHeartbeat", "lock")

\* C3: a goroutine inside a write-locked section (RecordHeartbeat,
\* RecordUploadStat, LoadDevicesFromCSV) excludes every other goroutine from
\* every locked section, whatever devices the calls are for.
C3_WritersExclusive ==
    /\ \A p \in Procs :
          InWriteSection(p) =>
              /\ ~LoadInSection
              /\ \A q \in Procs \ {p} : ~InWriteSection(q) /\ ~InReadSection(q)
    /\ LoadInSection => \A q \in Procs : ~InWriteSection(q) /\ ~InReadSection(q)

\* A writer is in the middle of updating d1 while a second writer is blocked.
C3_Witness ==
    \E p, q \in Procs :
        /\ p # q
        /\ At(p, "RecordUploadStat", "loadsum") /\ call[p].id = "d1"
        /\ "d2" \in DOMAIN devices
        /\ At(q, "RecordHeartbeat", "lock")

\* The calls C4 and C5 speak of, at the point where the value to return is set.
Returning(p) ==
    \/ pc[p] = "unlock"
    \/ pc[p] = "runlock" /\ call[p].op \in {"DeviceExists", "GetStats"}

\* C4: a call for an id that was not a key of the store when the call took
\* the lock returns false (found=false for GetStats) and has left the key set
\* and every record as they were.
C4_UnknownDevice ==
    \A p \in Procs :
        (Returning(p) /\ call[p].id \notin DOMAIN committed) =>
            /\ ~ret[p].ok
            /\ devices = committed

\* RecordHeartbeat is about to return for an unknown id, in a store that holds
\* devices and a recorded heartbeat.
C4_Witness ==
    \E p \in Procs :
        /\ At(p, "RecordHeartbeat", "unlock")
        /\ call[p].id = "zz"
        /\ \E d \in DOMAIN devices : devices[d].HeartbeatCount > 0

\* C5: once main has left LoadDevicesFromCSV the key set of the map stays what
\* it was then, and DeviceCount returns its size, whatever calls are made.
C5_KeysFixed ==
    LoadFinished =>
        /\ DOMAIN devices = roster
        /\ \A p \in Procs :
              At(p, "DeviceCount", "runlock") => ret[p].n = Cardinality(roster)

\* DeviceCount returns 2 after a write for an unknown id and a write for a
\* known one have completed.
C5_Witness ==
    \E p \in Procs :
        /\ At(p, "DeviceCount", "runlock")
        /\ ret[p].n = 2
        /\ calls = 3
        /\ \E d \in DOMAIN devices : devices[d].UploadCount = 1

\* C6: between calls, HeartbeatCount is 0 exactly when FirstHeartbeat and
\* LastHeartbeat are both the zero time.
C6_ZeroCountIffUnset ==
    \A d \in DOMAIN committed :
        (committed[d].HeartbeatCount = 0) <=>
            (IsZero(committed[d].FirstHeartbeat) /\ IsZero(committed[d].LastHeartbeat))

\* C7: FirstHeartbeat is the sentAt of the first RecordHeartbeat call that
\* returned true for the device, whatever calls followed.
C7_FirstHeartbeatSetOnce ==
    \A d \in DOMAIN committed :
        firstOk[d] # {} => committed[d].FirstHeartbeat \in firstOk[d]

\* C8: when RecordHeartbeat(id, t) is about to return true, LastHeartbeat of id
\* is t; and whenever no RecordHeartbeat call for a device is inside its locked
\* section, LastHeartbeat is the sentAt of the call that took the lock last.
C8_LastWriteWins ==
    /\ \A p \in Procs :
          (At(p, "RecordHeartbeat", "unlock") /\ ret[p].ok) =>
              devices[call[p].id].LastHeartbeat = call[p].sentAt
    /\ \A d \in DOMAIN devices :
          (/\ lastLocked[d] # {}
           /\ \A p \in Procs :
                 ~(InWriteSection(p) /\ call[p].op = "RecordHeartbeat" /\ call[p].id = d))
          => devices[d].LastHeartbeat \in lastLocked[d]

\* A heartbeat earlier than the recorded LastHeartbeat has just been applied,
\* while another RecordHeartbeat call waits for the lock.
C8_Witness ==
    \E p, q \in Procs :
        /\ At(p, "RecordHeartbeat", "unlock") /\ ret[p].ok
        /\ ~IsZero(call[p].sentAt)
        /\ call[p].sentAt < committed[call[p].id].LastHeartbeat
        /\ devices[call[p].id].LastHeartbeat = call[p].sentAt
        /\ At(q, "RecordHeartbeat", "lock")

\* C9: the Uptime GetStats returns for a record with heartbeats lies between 0
\* and 100 inclusive.
C9_UptimeInRange ==
    \A p \in Procs :
        (At(p, "GetStats", "runlock") /\ ret[p].ok /\ ret[p].stats.HasHeartbeats) =>
            /\ FracLE(ZeroFrac, ret[p].stats.Uptime)
            /\ FracLE(ret[p].stats.Uptime, Hundred)

\* C10: every divisor GetStats divides by is non-zero.
C10_NoZeroDivisor ==
    \A p \in Procs :
        At(p, "GetStats", "runlock") => \A dv \in ret[p].divisors : dv.num # 0

\* C11: between calls, UploadCount of a record is 0 exactly when its
\* UploadTimeSum is 0, whatever durations RecordUploadStat was given; taken
\* here for the records whose recorded durations were all positive, where a
\* sum of 0 can only come from the int64 addition.
C11_ZeroCountIffZeroSum ==
    \A d \in DOMAIN committed :
        upKinds[d] \subseteq {"positive"} =>
            ((committed[d].UploadCount = 0) <=> (committed[d].UploadTimeSum = 0))

\* C12: UploadTimeSum of every record is non-negative; taken here for the
\* records that were given no negative duration, where a negative sum can
\* only come from the int64 addition.
C12_SumNonNegative ==
    \A d \in DOMAIN devices :
        "negative" \notin upKinds[d] => devices[d].UploadTimeSum >= 0

\* C13: between calls, HeartbeatCount of a device is the number of
\* RecordHeartbeat calls that returned true for it, UploadCount the number of
\* RecordUploadStat calls that returned true for it, and UploadTimeSum the sum
\* of the durations of those RecordUploadStat calls; a device absent from the
\* map has no call that returned true.
C13_CountsAndSum ==
    \A d \in DeviceIDs :
        IF d \in DOMAIN committed
        THEN /\ committed[d].HeartbeatCount = hbOk[d]
             /\ committed[d].UploadCount = upOk[d]
             /\ committed[d].UploadTimeSum = upSum[d]
        ELSE hbOk[d] = 0 /\ upOk[d] = 0 /\ upSum[d] = 0

\* C15: GetStats for a device with exactly one RecordHeartbeat call that
\* returned true, whatever its timestamp, returns found, HasHeartbeats and an
\* Uptime of exactly 100.
C15_SingleHeartbeat ==
    \A p \in Procs :
        (At(p, "GetStats", "runlock") /\ hbOk[call[p].id] = 1) =>
            /\ ret[p].ok
            /\ ret[p].stats.HasHeartbeats
            /\ ret[p].stats.Uptime = Hundred

\* GetStats has read a record whose only heartbeat carries the latest timestamp.
C15_Witness ==
    \E p \in Procs :
        /\ At(p, "GetStats", "runlock")
        /\ hbOk[call[p].id] = 1
        /\ devices[call[p].id].FirstHeartbeat = MaxTime
        /\ devices[call[p].id].LastHeartbeat = MaxTime

\* C18: GetStats for a device registered at load for which no RecordHeartbeat
\* and no RecordUploadStat call has returned true returns found with
\* HasHeartbeats and HasUploads both false.
C18_EmptyRecord ==
    \A p \in Procs :
        (/\ At(p, "GetStats", "runlock")
         /\ call[p].id \in roster
         /\ hbOk[call[p].id] = 0 /\ upOk[call[p].id] = 0)
        => /\ ret[p].ok
           /\ ~ret[p].stats.HasHeartbeats
           /\ ~ret[p].stats.HasUploads

\* GetStats has read the untouched record of d2 after a heartbeat and an upload
\* were recorded for d1.
C18_Witness ==
    \E p \in Procs :
        /\ At(p, "GetStats", "runlock") /\ call[p].id = "d2" /\ ret[p].ok
        /\ hbOk["d2"] = 0 /\ upOk["d2"] = 0
        /\ hbOk["d1"] = 1 /\ upOk["d1"] = 1

ReaderOps == {"DeviceExists", "GetStats", "DeviceCount"}

\* Goroutine p takes a step of a read-only method.
ReaderStep(p) ==
    /\ pc'[p] # pc[p]
    /\ call[p].op \in ReaderOps \/ call'[p].op \in ReaderOps

\* C19: no step of DeviceExists, GetStats or DeviceCount changes a record or
\* the key set of the map, for known and unknown ids.
C19_ReadersChangeNothing ==
    [][\A p \in Procs : ReaderStep(p) => devices' = devices]_vars

\* DeviceExists has looked up an unknown id and GetStats a device with a
\* heartbeat; both are about to return.
C19_Witness ==
    \E p, q \in Procs :
        /\ At(p, "DeviceExists", "runlock") /\ call[p].id = "zz"
        /\ At(q, "GetStats", "runlock") /\ ret[q].ok /\ ret[q].stats.HasHeartbeats

\* C20: a goroutine blocked in RLock can proceed whenever no writer holds or
\* waits for the mutex, however many readers are inside their sections; so two
\* readers can be inside at the same time.
C20_ReadersShare ==
    \A p \in Procs :
        (/\ pc[p] = "rlock"
         /\ \A q \in Procs : pc[q] # "lock" /\ ~InWriteSection(q))
        => ENABLED (DeviceExists(p) \/ GetStats(p) \/ DeviceCount(p))

\* Two goroutines are inside read-locked sections at once.
C20_Witness ==
    \E p, q \in Procs :
        /\ p # q
        /\ InReadSection(p) /\ InReadSection(q)
        /\ mu.r = 2

\* The test holds the result of GetStats for the record as it is now.
TestResult == pc[Tester] = "returned" /\ call[Tester].op = "GetStats"

\* C14: the Uptime GetStats returns is never above 100, for any number of
\* heartbeats and any timestamps; when two or more heartbeats were recorded and
\* all of them fall in one calendar minute it is exactly 100.
C14_UptimeCapped ==
    TestResult =>
        /\ FracLE(ret[Tester].stats.Uptime, Hundred)
        /\ (hbOk[TestID] >= 2 /\ hbMinute[TestID].seen = "one")
              => ret[Tester].stats.Uptime = Hundred

\* Three heartbeats within the minute of baseTime, not all at the same instant.
C14_Witness ==
    /\ TestResult
    /\ hbOk[TestID] = 3
    /\ hbMinute[TestID] = [seen |-> "one", minute |-> Minute(BaseTime)]
    /\ devices[TestID].FirstHeartbeat < devices[TestID].LastHeartbeat

\* C16: for a record with HeartbeatCount >= 2, with m the minutes from
\* FirstHeartbeat to LastHeartbeat plus one, GetStats returns Uptime =
\* min(100, HeartbeatCount / m * 100), the quotient by m = 0 being +Inf.  Five
\* heartbeats from baseTime to ten minutes later give 5/11*100, two heartbeats
\* one minute apart give 100, five heartbeats spanning four minutes give 100.
C16_UptimeFormula ==
    (TestResult /\ devices[TestID].HeartbeatCount >= 2) =>
        LET n == devices[TestID].HeartbeatCount
            span == devices[TestID].LastHeartbeat - devices[TestID].FirstHeartbeat
            m == span + TicksPerMinute
            u == ret[Tester].stats.Uptime
        IN /\ IF m = 0 \/ (m > 0 /\ n * TicksPerMinute > m)
              THEN u = Hundred
              ELSE u.num * m = n * 100 * TicksPerMinute * u.den
           /\ (n = 5 /\ span = 10 * TicksPerMinute) => u = [num |-> 500, den |-> 11]
           /\ (n = 2 /\ span = TicksPerMinute) => u = Hundred
           /\ (n = 5 /\ span = 4 * TicksPerMinute) => u = Hundred

\* Five heartbeats, the first at baseTime and the last ten minutes later.
C16_Witness ==
    /\ TestResult
    /\ hbOk[TestID] = 5
    /\ firstOk[TestID] = {BaseTime}
    /\ devices[TestID].FirstHeartbeat = BaseTime
    /\ devices[TestID].LastHeartbeat = BaseTime + 10 * TicksPerMinute
    /\ ret[Tester].stats.Uptime = [num |-> 500, den |-> 11]

\* C17: for a record with UploadCount > 0 GetStats returns HasUploads and
\* AvgUploadTime = UploadTimeSum / UploadCount truncated toward zero; three
\* uploads summing to 30 (5, 10 and 15) give exactly 10.
C17_AvgTruncates ==
    (TestResult /\ devices[TestID].UploadCount > 0) =>
        LET n == devices[TestID].UploadCount
            sum == devices[TestID].UploadTimeSum
            avg == ret[Tester].stats.AvgUploadTime
            rest == sum - avg * n
        IN /\ ret[Tester].stats.HasUploads
           /\ Abs(rest) < n
           /\ sum >= 0 => rest >= 0
           /\ sum <= 0 => rest <= 0
           /\ (n = 3 /\ sum = 6 * UploadStep) => avg = 2 * UploadStep

\* Three uploads of positive durations summing to 30 have been recorded.
C17_Witness ==
    /\ TestResult
    /\ upOk[TestID] = 3
    /\ upKinds[TestID] = {"positive"}
    /\ upSum[TestID] = 6 * UploadStep
    /\ ret[Tester].stats.AvgUploadTime = 2 * UploadStep

\* ------------------------------------------------------ the HTTP handlers
Responded(p, handler) == hdl[p].at = "responded" /\ hdl[p].op = handler

\* C21: while the server holds a configuration error, every heartbeat POST,
\* stats POST and stats GET, whatever its device id and body, is answered 500
\* with "server configuration error: " followed by the error's text, and no
\* method of the store is called: no goroutine enters one or takes the lock,
\* no body is read, no result is held, and the records stay as the failed
\* load left them.
C21_ConfigErrorAnswers500 ==
    configErr =>
        /\ devices = NewStore /\ committed = NewStore
        /\ mu = [w |-> FALSE, r |-> 0]
        /\ \A p \in Procs :
              /\ pc[p] = "idle" /\ call[p] = NoCall
              /\ hdl[p].at \in {"idle", "enter", "responded"}
              /\ hdl[p].result = NoRet
              /\ req[p].body = NoBody
              /\ (hdl[p].at = "responded" /\ hdl[p].op \in Handlers) =>
                    resp[p] = ErrorResponse(500,
                        "server configuration error: " \o ConfigErrText)

C21_Witness ==
    /\ configErr
    /\ \E p \in Procs :
          /\ Responded(p, "HandlePostStats")
          /\ req[p].path = PathOf("d1", "stats")
          /\ resp[p].status = 500

\* C22: with no configuration error, a heartbeat POST, stats POST or stats GET
\* for a device id that is not registered is answered 404 "device not found"
\* and records nothing: its goroutine never enters a recording method.  The
\* handlers look the device up before they read the body: no body is read for
\* an unknown device, whatever it holds, so such a request is never answered
\* 400.
C22_UnknownDevice404 ==
    \A p \in Procs :
        (hdl[p].op \in Handlers /\ hdl[p].at # "enter" /\ ~configErr /\ ~Known(hdl[p].id)) =>
            /\ hdl[p].at \in {"exists", "checked", "getstats", "got", "responded"}
            /\ call[p].op \notin Writers
            /\ req[p].body = NoBody
            /\ hdl[p].at = "responded" => resp[p] = ErrorResponse(404, "device not found")

C22_Witness ==
    \E p \in Procs :
        /\ Responded(p, "HandleHeartbeat")
        /\ ~configErr
        /\ hdl[p].id = "zz"
        /\ DOMAIN devices # {}
        /\ resp[p].status = 404

\* C23: a stats POST for a registered device whose upload_time is zero,
\* negative or above maxUploadTime (one hour) is answered 400 and its goroutine
\* enters no method of the store after the validation, so it leaves the
\* records, UploadCount and UploadTimeSum among them, as they were; every
\* other decoded upload_time is recorded and answered 204, so RecordUploadStat
\* is only ever called with a duration in (0, maxUploadTime].
C23_UploadTimeValidated ==
    /\ \A p \in Procs :
          (hdl[p].op = "HandlePostStats" /\ req[p].body.json = "ok") =>
              IF req[p].body.upload_time <= 0 \/ req[p].body.upload_time > maxUploadTime
              THEN /\ hdl[p].at \in {"validate", "responded"}
                   /\ pc[p] = "idle" /\ call[p] = NoCall
                   /\ hdl[p].at = "responded" => resp[p].status = 400
              ELSE /\ hdl[p].at = "responded" => resp[p].status = 204
                   /\ call[p].op = "RecordUploadStat" =>
                         call[p].uploadTime = req[p].body.upload_time
    /\ \A p \in Procs :
          call[p].op = "RecordUploadStat" =>
              call[p].uploadTime > 0 /\ call[p].uploadTime <= maxUploadTime
    /\ \A id \in DOMAIN devices :
          /\ upKinds[id] \subseteq {"positive"}
          /\ upSum[id] >= upOk[id]
          /\ upSum[id] <= upOk[id] * maxUploadTime

C23_Witness ==
    \E p \in Procs :
        /\ Responded(p, "HandlePostStats")
        /\ req[p].body.upload_time = maxUploadTime + 1
        /\ resp[p].status = 400
        /\ devices[hdl[p].id].UploadCount > 0

\* C24: a heartbeat POST for a registered device whose body is not valid JSON,
\* whose sent_at is missing (the zero time), or whose sent_at is more than one
\* minute later than the server's clock is answered 400 and its goroutine
\* enters no method of the store after the existence check, so it leaves the
\* records, HeartbeatCount, FirstHeartbeat and LastHeartbeat among them, as
\* they were; RecordHeartbeat is called for every other request, with its
\* sent_at.
C24_HeartbeatValidated ==
    \A p \in Procs :
        (hdl[p].op = "HandleHeartbeat" /\ req[p].body # NoBody) =>
            IF req[p].body.json = "bad"
            THEN /\ Responded(p, "HandleHeartbeat") /\ resp[p].status = 400
                 /\ pc[p] = "idle" /\ call[p] = NoCall
            ELSE IF hdl[p].at = "validate"
            THEN pc[p] = "idle" /\ call[p] = NoCall
            ELSE IF \/ IsZero(req[p].body.sent_at)
                    \/ req[p].body.sent_at > now[p] + TicksPerMinute
            THEN /\ Responded(p, "HandleHeartbeat") /\ resp[p].status = 400
                 /\ pc[p] = "idle" /\ call[p] = NoCall
            ELSE /\ hdl[p].at = "responded" => resp[p].status = 204
                 /\ call[p].op = "RecordHeartbeat" =>
                       call[p].sentAt = req[p].body.sent_at

C24_Witness ==
    \E p \in Procs :
        /\ Responded(p, "HandleHeartbeat")
        /\ req[p].body.json = "ok"
        /\ ~IsZero(now[p])
        /\ req[p].body.sent_at = now[p] + TicksPerMinute + 1
        /\ resp[p] = ErrorResponse(400, "sent_at cannot be in the future")
        /\ devices[hdl[p].id].HeartbeatCount > 0

\* C25: a heartbeat POST is answered 204 only after RecordHeartbeat returned
\* true for it, and when that call releases the lock it has raised the
\* device's HeartbeatCount by exactly one and set its LastHeartbeat to the
\* request's sent_at; a stats POST is answered 204 only after RecordUploadStat
\* returned true for it, and that call has raised UploadCount by one and added
\* the request's upload_time to UploadTimeSum (the += of an int64); every other
\* record is left alone.  No 204 is written for a request that was not
\* recorded, whatever other requests ran between its existence check, its
\* recording and its response.
C25_NoContentMeansRecorded ==
    \A p \in Procs :
        /\ (hdl[p].op \in {"HandleHeartbeat", "HandlePostStats"}
            /\ (hdl[p].at = "recorded" \/ (hdl[p].at = "responded" /\ resp[p].status = 204))) =>
              /\ hdl[p].result.ok
              /\ Known(hdl[p].id)
        /\ (hdl[p].op = "HandleHeartbeat" /\ pc[p] = "unlock") =>
              /\ ret[p].ok
              /\ devices = [committed EXCEPT ![hdl[p].id] =
                               [@ EXCEPT !.HeartbeatCount = @ + 1,
                                         !.FirstHeartbeat =
                                             IF committed[hdl[p].id].HeartbeatCount = 0
                                             THEN req[p].body.sent_at ELSE @,
                                         !.LastHeartbeat = req[p].body.sent_at]]
        /\ (hdl[p].op = "HandlePostStats" /\ pc[p] = "unlock") =>
              /\ ret[p].ok
              /\ devices = [committed EXCEPT ![hdl[p].id] =
                               [@ EXCEPT !.UploadCount = @ + 1,
                                         !.UploadTimeSum =
                                             WrapInt64(@ + req[p].body.upload_time)]]

\* A 204 for a heartbeat and a 204 for an upload of the same device, both
\* written and neither handler returned: the record holds the one and the other.
C25_Witness ==
    \E p, q \in Procs :
        /\ Responded(p, "HandleHeartbeat")
        /\ resp[p].status = 204
        /\ hdl[p].result.ok
        /\ q # p
        /\ Responded(q, "HandlePostStats")
        /\ resp[q].status = 204
        /\ hdl[q].id = hdl[p].id
        /\ devices[hdl[p].id].HeartbeatCount = 1
        /\ devices[hdl[p].id].LastHeartbeat = req[p].body.sent_at
        /\ devices[hdl[p].id].UploadCount = 1
        /\ devices[hdl[p].id].UploadTimeSum = req[q].body.upload_time

\* C26, as claimed: a stats GET for a registered device is answered 204 with
\* no body exactly when neither a heartbeat nor an upload has been recorded for
\* the device, and 200 with uptime and average as soon as one is recorded.
C26_GetStatsNoContentIffEmpty ==
    \A p \in Procs :
        (Responded(p, "HandleGetStats") /\ ~configErr /\ Known(hdl[p].id)) =>
            IF hbOk[hdl[p].id] = 0 /\ upOk[hdl[p].id] = 0
            THEN resp[p] = [NoResponse EXCEPT !.status = 204]
            ELSE resp[p].status = 200

\* C26, amended: a stats GET for a registered device is answered 204 with no
\* body exactly when the record GetStats read under the store's lock had
\* neither a heartbeat nor an upload, and 200 with the uptime and the rendered
\* average upload time GetStats computed when it had one; what GetStats reads
\* is the record as the recordings completed so far left it, and a recording
\* that completes after GetStats returned does not show in the response.
C26_GetStatsAnswersWhatItRead ==
    \A p \in Procs :
        /\ (hdl[p].op = "HandleGetStats" /\ pc[p] = "runlock" /\ Known(hdl[p].id)) =>
              /\ ret[p].ok
              /\ ret[p].stats.HasHeartbeats <=> hbOk[hdl[p].id] > 0
              /\ ret[p].stats.HasUploads <=> upOk[hdl[p].id] > 0
              /\ ret[p].stats = Stats(committed[hdl[p].id])
        /\ (Responded(p, "HandleGetStats") /\ ~configErr /\ Known(hdl[p].id)) =>
              /\ hdl[p].result.ok
              /\ hdl[p].result.stats.HasHeartbeats => hbOk[hdl[p].id] > 0
              /\ hdl[p].result.stats.HasUploads => upOk[hdl[p].id] > 0
              /\ IF ~hdl[p].result.stats.HasHeartbeats /\ ~hdl[p].result.stats.HasUploads
                 THEN resp[p] = [NoResponse EXCEPT !.status = 204]
                 ELSE /\ resp[p].status = 200
                      /\ resp[p].msg = ""
                      /\ resp[p].uptime = hdl[p].result.stats.Uptime
                      /\ resp[p].avg_upload_time =
                             DurationString(hdl[p].result.stats.AvgUploadTime)

\* A 204 written for a device whose first heartbeat was recorded after
\* GetStats had returned.
C26_Witness ==
    \E p \in Procs :
        /\ Responded(p, "HandleGetStats")
        /\ Known(hdl[p].id)
        /\ resp[p].status = 204
        /\ hbOk[hdl[p].id] = 1
        /\ committed[hdl[p].id].HeartbeatCount = 1

\* C27: a stats GET for a registered device for which GetStats found no
\* recorded upload is answered 204 No Content, whatever heartbeats the device
\* has.
C27_ZeroUploadsNoContent ==
    \A p \in Procs :
        (Responded(p, "HandleGetStats") /\ ~configErr /\ hdl[p].result.ok
         /\ ~hdl[p].result.stats.HasUploads) =>
            resp[p].status = 204

\* C28: the roster load has finished, with nil or with an error, before the
\* HTTP server accepts a request: whenever a handler runs, main is past
\* LoadDevicesFromCSV and in ListenAndServe, the map holds exactly the roster
\* the load left, and the store's lock, if held, is held by a handler's call
\* of the store and not by the load; no handler runs while the load does.
C28_LoadBeforeServe ==
    (\E p \in Procs : \/ hdl[p] # NoHandler \/ pc[p] # "idle"
                      \/ req[p] # NoRequest \/ resp[p] # NoResponse) =>
        /\ mainpc = "serve"
        /\ DOMAIN devices = roster
        /\ configErr => roster = {}
        /\ mu.w => \E q \in Procs : InWriteSection(q)
        /\ mu.r = Cardinality({q \in Procs : InReadSection(q)})

C28_Witness ==
    /\ mainpc = "serve"
    /\ ~configErr
    /\ Len(records) = 4
    /\ mu.w
    /\ \E p \in Procs : hdl[p].at = "decode" /\ hdl[p].id = "d1"

\* The distinct non-empty first-column values of the rows after the header.
DataIDs(rows) ==
    {rows[k][1] : k \in {j \in 2..Len(rows) : Len(rows[j]) > 0 /\ rows[j][1] # ""}}

\* C29: when LoadDevicesFromCSV has returned nil on the empty store, the map
\* holds exactly one zero record for each distinct non-empty first-column value
\* of the rows after the header, DeviceCount is the number of those values and
\* DeviceExists is true for exactly them.
C29_RosterFromRows ==
    (mainpc = "newserver" /\ ~configErr) =>
        /\ devices = [id \in DataIDs(records) |-> DeviceStats(id)]
        /\ DeviceCountResult.n = Cardinality(DataIDs(records))
        /\ \A id \in DeviceIDs \cup {"device_id", ""} :
              DeviceExistsResult(id).ok <=> id \in DataIDs(records)

C29_Witness ==
    /\ mainpc = "newserver"
    /\ ~configErr
    /\ Len(records) = 4
    /\ DeviceCountResult.n = 1
    /\ DeviceExistsResult("d1").ok

\* C30: when LoadDevicesFromCSV cannot open or parse the file it returns the
\* error without touching the map, which stays empty, and main does not exit:
\* it keeps the error as the server's configuration error, builds the server
\* and goes on to ListenAndServe.  A load that read the file, were it empty,
\* went through its locked section (i was set to 1) and leaves no error.
C30_LoadFailureKept ==
    /\ mainpc \in {"newserver", "serve"} => (configErr <=> i = 0)
    /\ configErr =>
          /\ records = << >>
          /\ devices = NewStore
          /\ roster = {}
          /\ mainpc \in {"newserver", "serve"}
          /\ mainpc = "newserver" => (~mu.w /\ ENABLED MainServe)

C30_Witness ==
    /\ configErr
    /\ mainpc = "serve"
    /\ devices = NewStore
    /\ \E p \in Procs : Responded(p, "HandleGetStats") /\ resp[p].status = 500

\* ------------------------------------------- the store as an atomic object
\* A goroutine is between the return of Lock and the deferred Unlock of a writer.
InWriter(p) == call[p].op \in Writers /\ pc[p] \notin {"idle", "lock"}

\* The records as the serialized writes leave them once the writer p, which has
\* executed all its statements, unlocks: its effect applied as one step to the
\* records the writers before it left.
Serialized(p) ==
    IF ~ret[p].ok THEN committed
    ELSE IF call[p].op = "RecordHeartbeat"
         THEN [committed EXCEPT ![call[p].id] = RecordHeartbeatBody(@, call[p].sentAt)]
         ELSE [committed EXCEPT ![call[p].id] = RecordUploadStatBody(@, call[p].uploadTime)]

\* C31: the locked store refines a store whose operations are atomic.  The
\* writes take effect one after the other in the order they take the lock:
\* when a writer is about to unlock, the map is the map the writers before it
\* left with this writer's effect applied as one step, and while no writer is
\* inside the map is what the last writer left.  Every GetStats result is the
\* stats derivation applied to the record those serialized writes left when
\* GetStats read it, between its call and its return: the writes that returned
\* before the call are in it, those called after the return are not.
C31_GetStatsLinearizable ==
    /\ (mainpc # "loop" /\ \A q \in Procs : ~InWriter(q)) => devices = committed
    /\ \A p \in Procs :
          /\ (call[p].op \in Writers /\ pc[p] = "unlock") => devices = Serialized(p)
          /\ At(p, "GetStats", "runlock") =>
                /\ devices = committed
                /\ \A q \in Procs : ~InWriter(q)
                /\ ret[p] = IF call[p].id \in DOMAIN committed
                            THEN [ok |-> TRUE, stats |-> Stats(committed[call[p].id]),
                                  n |-> 0, divisors |-> Divisors(committed[call[p].id])]
                            ELSE [NoRet EXCEPT !.ok = FALSE]

\* GetStats has read a record a heartbeat was serialized into, while another
\* goroutine waits for the lock to write.
C31_Witness ==
    \E p, q \in Procs :
        /\ At(p, "GetStats", "runlock")
        /\ ret[p].ok
        /\ ret[p].stats.HasHeartbeats
        /\ hbOk[call[p].id] = 1
        /\ call[q].op \in Writers /\ pc[q] = "lock"

\* ----------------------------------------------------------- termination
MutexFree == mu = [w |-> FALSE, r |-> 0]

\* C32: under fair scheduling every store operation that was invoked
\* eventually returns, which it does only through its lock and its deferred
\* unlock, whatever mix of
\* DeviceExists, GetStats, DeviceCount, RecordHeartbeat and RecordUploadStat
\* calls runs beside it, so the calls cannot deadlock; and once every call has
\* returned the mutex is free, the unknown-device return path included.
C32_EveryCallReturns ==
    /\ \A p \in Procs :
          (pc[p] # "idle") ~> (pc[p] = "idle")
    /\ []((Serving /\ \A p \in Procs : pc[p] = "idle") => MutexFree)

\* A RecordHeartbeat blocked in Lock while a RecordUploadStat for an unknown
\* device holds the lock on its way out.
C32_Witness ==
    \E p, q \in Procs :
        /\ At(p, "RecordHeartbeat", "lock")
        /\ ~CanLock
        /\ At(q, "RecordUploadStat", "unlock")
        /\ ~ret[q].ok
        /\ call[q].id = "zz"

\* ------------------------------------------------------------------ frame
HeartbeatFields(device) ==
    <<device.HeartbeatCount, device.FirstHeartbeat, device.LastHeartbeat>>

UploadFields(device) == <<device.UploadCount, device.UploadTimeSum>>

\* C33: from the moment a RecordHeartbeat(id, t) holds the lock to its unlock
\* the ID, UploadCount and UploadTimeSum of device id and the whole record of
\* every other device are as the writers before it left them; likewise a
\* RecordUploadStat(id, d) leaves the ID and the heartbeat fields of device id
\* and every other record as they were.  A call for an unknown device changes
\* nothing at all.
C33_WritersFrame ==
    \A p \in Procs :
        InWriter(p) =>
            /\ DOMAIN devices = DOMAIN committed
            /\ \A x \in DOMAIN devices :
                  /\ x # call[p].id => devices[x] = committed[x]
                  /\ devices[x].ID = committed[x].ID
                  /\ call[p].op = "RecordHeartbeat" =>
                        UploadFields(devices[x]) = UploadFields(committed[x])
                  /\ call[p].op = "RecordUploadStat" =>
                        HeartbeatFields(devices[x]) = HeartbeatFields(committed[x])

\* A heartbeat recorded for a device that holds an upload, beside another
\* device that holds a heartbeat.
C33_Witness ==
    \E p \in Procs :
        /\ At(p, "RecordHeartbeat", "unlock")
        /\ ret[p].ok
        /\ devices[call[p].id].UploadCount = 1
        /\ devices # committed
        /\ \E x \in DOMAIN devices : x # call[p].id /\ devices[x].HeartbeatCount = 1

\* ------------------------------------------------------- ordered heartbeats
\* C34: as long as every successful RecordHeartbeat of a device came with a
\* timestamp not older than the one applied before it, the record the writers
\* left has FirstHeartbeat <= LastHeartbeat whenever its HeartbeatCount is at
\* least 1.
C34_FirstNotAfterLast ==
    \A d \in DOMAIN committed :
        (hbOrdered[d] /\ committed[d].HeartbeatCount >= 1) =>
            committed[d].FirstHeartbeat <= committed[d].LastHeartbeat

C34_Witness ==
    \E d \in DOMAIN committed :
        /\ hbOrdered[d]
        /\ committed[d].HeartbeatCount = 4
        /\ committed[d].FirstHeartbeat < committed[d].LastHeartbeat
        /\ ~IsZero(committed[d].FirstHeartbeat)
        /\ hbMinute[d].seen = "several"

\* ----------------------------------------------------------- the counters
\* C35: HeartbeatCount and UploadCount of every record are never negative, and
\* no step of any goroutine removes a record or lowers one of its counts; so
\* the HasHeartbeats and HasUploads that GetStats derives from a record, once
\* true, are true in every later state.
C35_CountsNeverDecrease ==
    [][\A d \in DOMAIN devices :
          /\ devices[d].HeartbeatCount >= 0
          /\ devices[d].UploadCount >= 0
          /\ d \in DOMAIN devices'
          /\ devices'[d].HeartbeatCount >= devices[d].HeartbeatCount
          /\ devices'[d].UploadCount >= devices[d].UploadCount
          /\ Stats(devices[d]).HasHeartbeats => Stats(devices'[d]).HasHeartbeats
          /\ Stats(devices[d]).HasUploads => Stats(devices'[d]).HasUploads]_vars

\* A GetStats that reports both flags true after an earlier call has left.
C35_Witness ==
    \E p \in Procs :
        /\ At(p, "GetStats", "runlock")
        /\ ret[p].stats.HasHeartbeats
        /\ ret[p].stats.HasUploads
        /\ calls = MaxCalls

\* ------------------------------------------------ the accumulator's range
\* C36: whatever requests come through the router, every record, as the
\* recordings completed so far left it, has HeartbeatCount = 0 exactly when
\* FirstHeartbeat is unset and UploadCount = 0 exactly when UploadTimeSum = 0.
C36_InvariantsThroughHTTP ==
    \A d \in DOMAIN committed :
        /\ (committed[d].HeartbeatCount = 0) <=> IsZero(committed[d].FirstHeartbeat)
        /\ (committed[d].UploadCount = 0) <=> (committed[d].UploadTimeSum = 0)

\* C37: whatever requests come through the router, the average a stats GET
\* reports for a device with uploads is greater than 0 and at most
\* maxUploadTime, and UploadTimeSum, as the recordings completed so far left
\* it, is the sum of the accepted upload times: the accumulator never wraps
\* around.
C37_AverageInRange ==
    /\ \A d \in DOMAIN committed : committed[d].UploadTimeSum = upSum[d]
    /\ \A p \in Procs :
          (Responded(p, "HandleGetStats") /\ resp[p].status = 200
           /\ hdl[p].result.stats.HasUploads) =>
              /\ hdl[p].result.stats.AvgUploadTime > 0
              /\ hdl[p].result.stats.AvgUploadTime <= maxUploadTime

====
